---- MODULE Spec2Model ----
(***************************************************************************)
(* Model of the asynchronous job-processing core of app.py: the /mtld      *)
(* submission route, the job registry (_jobs), the job queue (_queue),     *)
(* the single background worker and the shelve cache behind _cache_lock.   *)
(*                                                                         *)
(* Request threads (Flask, threaded=True) and the worker are interleaved   *)
(* at the granularity of the statements that touch shared state: each      *)
(* lock acquisition is one step, the body of a "with" block together with  *)
(* the release is one step, and queue.Queue.put/get are one step each      *)
(* (they are atomic under the queue's own mutex).                          *)
(*                                                                         *)
(* The shelve file is opened right after _cache_lock is taken and closed   *)
(* right before it is released: store_open records who has it open.        *)
(* Two more parts of the program have specifications of their own: the     *)
(* status lookup of index()/build_html() (SpecLookup) and the script       *)
(* delete_from_cache.py, a separate process, next to the server            *)
(* (SpecAdmin) and on its own (SpecDelete). SpecFair is Spec with the      *)
(* scheduling assumptions that progress needs.                             *)
(***************************************************************************)
EXTENDS Integers, Sequences, FiniteSets, TLC

\* ------------------------------------------------------------------ bounds
NumThreads == 2      \* request-handling threads that run concurrently
MaxSubmits == 2      \* submissions registered or in flight, in total
MaxClock   == 1      \* now_iso() takes the values 0..MaxClock (seconds)
MaxLookups == 1      \* status lookups (GET /) in progress at the same time

\* --------------------------------------------------------------- constants
POST_LIMIT == 500

\* the handles that are requested
Handles == {"alice", "bob"}

\* The keys the store can hold when delete_from_cache.py runs on its own: the
\* store outlives the server, so it can hold handles of earlier runs.
StoreKeys == Handles \cup {"carol"}

Threads == 1..NumThreads
Worker  == 0
Nobody  == -1
\* the process that runs delete_from_cache.py
Admin   == -2

\* Failures of the analysis steps inside the worker's try block:
\* fetch_with_bash raises ValueError; open/preprocess_text/compute_lexdiv raise.
AnalyzeErrors == {"fetch failed"}
\* Failure of write_cache (open_cache or the shelve assignment raises).
StoreError == "store failed"
NoError == "None"

NoJob == <<"", -1>>
\* what the variable "job" of build_html refers to: nothing, the dict that is
\* in _jobs under the id, or (as a record) a dict that has been replaced there
NoRec  == [id |-> NoJob, status |-> "", handle |-> "", error |-> NoError,
           position |-> 0]
NoRef  == [kind |-> "none", rec |-> NoRec]
Live   == [kind |-> "live", rec |-> NoRec]
Old(r) == [kind |-> "old", rec |-> r]
NoEntry == [handle |-> "", date |-> -1, posts |-> 0]

VARIABLES
    now,          \* the wall clock in whole seconds, as now_iso() renders it
    cache,        \* the shelve store: handle -> entry
    jobs,         \* _jobs, a dict in insertion order: sequence of job records
    queue,        \* _queue: sequence of <<job_id, handle>>
    jobs_lock,    \* holder of _jobs_lock
    cache_lock,   \* holder of _cache_lock
    pc,           \* request thread -> position in mtld_route
    handle,       \* request thread -> local "handle"
    snap,         \* request thread -> local "cache" (the dict copy)
    job_id,       \* request thread -> local "job_id"
    w_pc,         \* the worker's position in its loop
    w_job_id,     \* the worker's local "job_id"
    w_handle,     \* the worker's local "handle"
    w_entry,      \* the worker's local "entry"
    w_err,        \* the exception the worker has caught, as str(e)
    w_had_entry,  \* history: the cache held w_handle when the job was dequeued
    submitted,    \* history: the handles registered so far, in order
    store_open,   \* who has the shelve file open (threads, Worker, Admin)
    admin_pc,     \* delete_from_cache.py: "idle" (not running) or "open"
    admin_handle, \* delete_from_cache.py: sys.argv[1]
    admin_exit,   \* exit status of the last run of delete_from_cache.py
    admin_out,    \* what the last run printed: which message
    admin_listed, \* what the last run printed: the handles it listed
    held,         \* per thread, build_html: the dict "job" refers to
    l_status      \* per thread, build_html: the job["status"] it has read

vars == <<now, cache, jobs, queue, jobs_lock, cache_lock, pc, handle, snap,
          job_id, w_pc, w_job_id, w_handle, w_entry, w_err, w_had_entry,
          submitted, store_open, admin_pc, admin_handle, admin_exit,
          admin_out, admin_listed, held, l_status>>

tvars == <<pc, handle, snap, job_id>>
wvars == <<w_pc, w_job_id, w_handle, w_entry, w_err, w_had_entry>>
avars == <<admin_pc, admin_handle, admin_exit, admin_out, admin_listed>>
lvars == <<held, l_status>>

\* ------------------------------------------------------------ pure helpers

\* now_iso() has one-second resolution; the digest of "handle:now" is taken
\* as injective, so a job id is determined by, and determines, the pair.
job_id_for(h, t) == <<h, t>>

\* index of the record of job id jid in _jobs, 0 if absent
JobIndex(js, jid) ==
    IF \E i \in 1..Len(js) : js[i].id = jid
    THEN CHOOSE i \in 1..Len(js) : js[i].id = jid
    ELSE 0

HasJob(js, jid) == JobIndex(js, jid) # 0

JobRec(js, jid) == js[JobIndex(js, jid)]

\* the list "queued" built by get_queue_position and update_positions
QueuedIds(js) ==
    LET q == SelectSeq(js, LAMBDA j : j.status = "queued")
    IN  [i \in 1..Len(q) |-> q[i].id]

IndexIn(s, x) == CHOOSE i \in 1..Len(s) : s[i] = x

get_queue_position(js, jid) ==
    IF \E i \in 1..Len(QueuedIds(js)) : QueuedIds(js)[i] = jid
    THEN IndexIn(QueuedIds(js), jid)
    ELSE 0

update_positions(js) ==
    [i \in 1..Len(js) |->
        IF js[i].status = "queued"
        THEN [js[i] EXCEPT !.position = IndexIn(QueuedIds(js), js[i].id)]
        ELSE js[i]]

\* _jobs[jid] = rec : a new key goes to the end, an existing key keeps its place
DictSet(js, jid, rec) ==
    IF HasJob(js, jid)
    THEN [js EXCEPT ![JobIndex(js, jid)] = rec]
    ELSE Append(js, rec)

SetStatus(js, jid, st) == [js EXCEPT ![JobIndex(js, jid)].status = st]

\* ------------------------------------------------------------------- Init
Init ==
    /\ now = 0
    /\ cache = <<>>
    /\ jobs = <<>>
    /\ queue = <<>>
    /\ jobs_lock = Nobody
    /\ cache_lock = Nobody
    /\ pc = [t \in Threads |-> "idle"]
    /\ handle = [t \in Threads |-> ""]
    /\ snap = [t \in Threads |-> <<>>]
    /\ job_id = [t \in Threads |-> NoJob]
    /\ w_pc = "get"
    /\ w_job_id = NoJob
    /\ w_handle = ""
    /\ w_entry = NoEntry
    /\ w_err = NoError
    /\ w_had_entry = FALSE
    /\ submitted = <<>>
    /\ store_open = {}
    /\ admin_pc = "idle"
    /\ admin_handle = ""
    /\ admin_exit = -1
    /\ admin_out = ""
    /\ admin_listed = {}
    /\ held = [t \in Threads |-> NoRef]
    /\ l_status = [t \in Threads |-> ""]

\* ------------------------------------------------------------------ clock
Tick ==
    /\ now < MaxClock
    /\ now' = now + 1
    /\ UNCHANGED <<cache, jobs, queue, jobs_lock, cache_lock, submitted>>
    /\ UNCHANGED tvars
    /\ UNCHANGED wvars
    /\ UNCHANGED store_open
    /\ UNCHANGED avars
    /\ UNCHANGED lvars

\* ------------------------------------------------------- mtld_route (GET)
InFlight == Cardinality({t \in Threads : pc[t] # "idle"})

\* a request arrives: handle = request.args.get("handle")
Request(t, h) ==
    /\ pc[t] = "idle"
    /\ Len(submitted) + InFlight < MaxSubmits
    /\ pc' = [pc EXCEPT ![t] = "read_cache"]
    /\ handle' = [handle EXCEPT ![t] = h]
    /\ UNCHANGED <<now, cache, jobs, queue, jobs_lock, cache_lock, snap,
                   job_id, submitted>>
    /\ UNCHANGED wvars
    /\ UNCHANGED store_open
    /\ UNCHANGED avars
    /\ UNCHANGED lvars

\* read_cache: with _cache_lock: with open_cache() as cache:
ReadCacheAcquire(t) ==
    /\ pc[t] = "read_cache"
    /\ cache_lock = Nobody
    /\ cache_lock' = t
    /\ pc' = [pc EXCEPT ![t] = "read_open"]
    /\ UNCHANGED <<now, cache, jobs, queue, jobs_lock, handle, snap, job_id,
                   submitted>>
    /\ UNCHANGED wvars
    /\ store_open' = store_open \cup {t}
    /\ UNCHANGED avars
    /\ UNCHANGED lvars

\* read_cache: with open_cache() as cache: return dict(cache)
ReadCache(t) ==
    /\ pc[t] = "read_open"
    /\ cache_lock = t
    /\ snap' = [snap EXCEPT ![t] = cache]
    /\ cache_lock' = Nobody
    /\ pc' = [pc EXCEPT ![t] = "check"]
    /\ UNCHANGED <<now, cache, jobs, queue, jobs_lock, handle, job_id,
                   submitted>>
    /\ UNCHANGED wvars
    /\ store_open' = store_open \ {t}
    /\ UNCHANGED avars
    /\ UNCHANGED lvars

\* variant of CheckCache without the "if handle in cache" short-circuit
CheckCache_NoShortCircuit(t) ==
    /\ pc[t] = "check"
    /\ pc' = [pc EXCEPT ![t] = "lock_register"]
    /\ job_id' = [job_id EXCEPT ![t] = job_id_for(handle[t], now)]
    /\ snap' = [snap EXCEPT ![t] = <<>>]
    /\ UNCHANGED <<now, cache, jobs, queue, jobs_lock, cache_lock, handle,
                   submitted>>
    /\ UNCHANGED wvars
    /\ UNCHANGED store_open
    /\ UNCHANGED avars
    /\ UNCHANGED lvars

\* if handle in cache: redirect;  else job_id = job_id_for(handle)
CheckCache(t) ==
    /\ pc[t] = "check"
    /\ IF handle[t] \in DOMAIN snap[t]
       THEN /\ pc' = [pc EXCEPT ![t] = "idle"]
            /\ handle' = [handle EXCEPT ![t] = ""]
            /\ job_id' = job_id
       ELSE /\ pc' = [pc EXCEPT ![t] = "lock_register"]
            /\ handle' = handle
            /\ job_id' = [job_id EXCEPT ![t] = job_id_for(handle[t], now)]
    /\ snap' = [snap EXCEPT ![t] = <<>>]
    /\ UNCHANGED <<now, cache, jobs, queue, jobs_lock, cache_lock, submitted>>
    /\ UNCHANGED wvars
    /\ UNCHANGED store_open
    /\ UNCHANGED avars
    /\ UNCHANGED lvars

\* with _jobs_lock:
RegisterAcquire(t) ==
    /\ pc[t] = "lock_register"
    /\ jobs_lock = Nobody
    /\ jobs_lock' = t
    /\ pc' = [pc EXCEPT ![t] = "register"]
    /\ UNCHANGED <<now, cache, jobs, queue, cache_lock, handle, snap, job_id,
                   submitted>>
    /\ UNCHANGED wvars
    /\ UNCHANGED store_open
    /\ UNCHANGED avars
    /\ UNCHANGED lvars

\* _jobs[job_id] = {"status": "queued", ..., "position": _queue.qsize() + 1}
Register(t) ==
    /\ pc[t] = "register"
    /\ jobs_lock = t
    /\ jobs' = DictSet(jobs, job_id[t],
                       [id |-> job_id[t], status |-> "queued",
                        handle |-> handle[t], error |-> NoError,
                        position |-> Len(queue) + 1])
    /\ jobs_lock' = Nobody
    /\ submitted' = Append(submitted, handle[t])
    /\ pc' = [pc EXCEPT ![t] = "put"]
    \* a dict replaced in _jobs stays as it is for who still refers to it
    /\ held' = [u \in Threads |->
                   IF held[u] = Live /\ job_id[u] = job_id[t]
                   THEN Old(JobRec(jobs, job_id[t]))
                   ELSE held[u]]
    /\ UNCHANGED <<now, cache, queue, cache_lock, handle, snap, job_id>>
    /\ UNCHANGED wvars
    /\ UNCHANGED store_open
    /\ UNCHANGED avars
    /\ UNCHANGED l_status

\* variant of Put in which the item does not reach the queue
Put_Lost(t) ==
    /\ pc[t] = "put"
    /\ queue' = queue
    /\ pc' = [pc EXCEPT ![t] = "idle"]
    /\ handle' = [handle EXCEPT ![t] = ""]
    /\ job_id' = [job_id EXCEPT ![t] = NoJob]
    /\ UNCHANGED <<now, cache, jobs, jobs_lock, cache_lock, snap, submitted>>
    /\ UNCHANGED wvars
    /\ UNCHANGED store_open
    /\ UNCHANGED avars
    /\ UNCHANGED lvars

\* _queue.put((job_id, handle)); return redirect(...)
Put(t) ==
    /\ pc[t] = "put"
    /\ queue' = Append(queue, <<job_id[t], handle[t]>>)
    /\ pc' = [pc EXCEPT ![t] = "idle"]
    /\ handle' = [handle EXCEPT ![t] = ""]
    /\ job_id' = [job_id EXCEPT ![t] = NoJob]
    /\ UNCHANGED <<now, cache, jobs, jobs_lock, cache_lock, snap, submitted>>
    /\ UNCHANGED wvars
    /\ UNCHANGED store_open
    /\ UNCHANGED avars
    /\ UNCHANGED lvars

\* ----------------------------------------------------------------- worker

\* job_id, handle = _queue.get()
WorkerGet ==
    /\ w_pc = "get"
    /\ queue # <<>>
    /\ w_job_id' = Head(queue)[1]
    /\ w_handle' = Head(queue)[2]
    /\ queue' = Tail(queue)
    /\ w_had_entry' = (Head(queue)[2] \in DOMAIN cache)
    /\ w_pc' = "lock_processing"
    /\ UNCHANGED <<now, cache, jobs, jobs_lock, cache_lock, w_entry, w_err,
                   submitted>>
    /\ UNCHANGED tvars
    /\ UNCHANGED store_open
    /\ UNCHANGED avars
    /\ UNCHANGED lvars

\* with _jobs_lock:   (line 121)
WorkerProcessingAcquire ==
    /\ w_pc = "lock_processing"
    /\ jobs_lock = Nobody
    /\ jobs_lock' = Worker
    /\ w_pc' = "mark_processing"
    /\ UNCHANGED <<now, cache, jobs, queue, cache_lock, w_job_id, w_handle,
                   w_entry, w_err, w_had_entry, submitted>>
    /\ UNCHANGED tvars
    /\ UNCHANGED store_open
    /\ UNCHANGED avars
    /\ UNCHANGED lvars

\* variant of WorkerMarkProcessing in which the analysis runs inside the
\* "with _jobs_lock" block
WorkerMarkProcessing_KeepsLock ==
    /\ w_pc = "mark_processing"
    /\ jobs_lock = Worker
    /\ IF HasJob(jobs, w_job_id)
       THEN /\ jobs' = update_positions(SetStatus(jobs, w_job_id, "processing"))
            /\ w_pc' = "analyze"
       ELSE /\ jobs' = jobs
            /\ w_pc' = "dead"
    /\ jobs_lock' = Worker
    /\ UNCHANGED <<now, cache, queue, cache_lock, w_job_id, w_handle, w_entry,
                   w_err, w_had_entry, submitted>>
    /\ UNCHANGED tvars
    /\ UNCHANGED store_open
    /\ UNCHANGED avars
    /\ UNCHANGED lvars

\* variant of WorkerMarkProcessing with a _jobs_lock that is not re-entrant:
\* update_positions asks for the lock its caller holds and never gets it
WorkerMarkProcessing_PlainLock ==
    /\ w_pc = "mark_processing"
    /\ jobs_lock = Worker
    /\ jobs_lock = Nobody
    /\ jobs' = update_positions(SetStatus(jobs, w_job_id, "processing"))
    /\ w_pc' = "analyze"
    /\ jobs_lock' = Nobody
    /\ UNCHANGED <<now, cache, queue, cache_lock, w_job_id, w_handle, w_entry,
                   w_err, w_had_entry, submitted>>
    /\ UNCHANGED tvars
    /\ UNCHANGED store_open
    /\ UNCHANGED avars
    /\ UNCHANGED lvars

\* _jobs[job_id]["status"] = "processing"; update_positions()
\* The statement is outside the try block: a KeyError would end the thread.
WorkerMarkProcessing ==
    /\ w_pc = "mark_processing"
    /\ jobs_lock = Worker
    /\ IF HasJob(jobs, w_job_id)
       THEN /\ jobs' = update_positions(SetStatus(jobs, w_job_id, "processing"))
            /\ w_pc' = "analyze"
       ELSE /\ jobs' = jobs
            /\ w_pc' = "dead"
    /\ jobs_lock' = Nobody
    /\ UNCHANGED <<now, cache, queue, cache_lock, w_job_id, w_handle, w_entry,
                   w_err, w_had_entry, submitted>>
    /\ UNCHANGED tvars
    /\ UNCHANGED store_open
    /\ UNCHANGED avars
    /\ UNCHANGED lvars

\* fetch_with_bash, open().read(), preprocess_text, compute_lexdiv succeed;
\* entry = {"handle": handle, "date": now_iso(), "posts": POST_LIMIT, ...}
WorkerAnalyzeOk ==
    /\ w_pc = "analyze"
    /\ w_entry' = [handle |-> w_handle, date |-> now, posts |-> POST_LIMIT]
    /\ w_pc' = "write_cache"
    /\ UNCHANGED <<now, cache, jobs, queue, jobs_lock, cache_lock, w_job_id,
                   w_handle, w_err, w_had_entry, submitted>>
    /\ UNCHANGED tvars
    /\ UNCHANGED store_open
    /\ UNCHANGED avars
    /\ UNCHANGED lvars

\* variant of WorkerAnalyzeFail in which the exception is not caught by the
\* except clause and ends the worker thread
WorkerAnalyzeFail_Uncaught(msg) ==
    /\ w_pc = "analyze"
    /\ w_err' = msg
    /\ w_pc' = "dead"
    /\ UNCHANGED <<now, cache, jobs, queue, jobs_lock, cache_lock, w_job_id,
                   w_handle, w_entry, w_had_entry, submitted>>
    /\ UNCHANGED tvars
    /\ UNCHANGED store_open
    /\ UNCHANGED avars
    /\ UNCHANGED lvars

\* one of them raises: except Exception as e
WorkerAnalyzeFail(msg) ==
    /\ w_pc = "analyze"
    /\ w_err' = msg
    /\ w_pc' = "lock_error"
    /\ UNCHANGED <<now, cache, jobs, queue, jobs_lock, cache_lock, w_job_id,
                   w_handle, w_entry, w_had_entry, submitted>>
    /\ UNCHANGED tvars
    /\ UNCHANGED store_open
    /\ UNCHANGED avars
    /\ UNCHANGED lvars

\* write_cache: with _cache_lock
WorkerWriteAcquire ==
    /\ w_pc = "write_cache"
    /\ cache_lock = Nobody
    /\ cache_lock' = Worker
    /\ w_pc' = "write_open"
    /\ UNCHANGED <<now, cache, jobs, queue, jobs_lock, w_job_id, w_handle,
                   w_entry, w_err, w_had_entry, submitted>>
    /\ UNCHANGED tvars
    /\ store_open' = store_open \cup {Worker}
    /\ UNCHANGED avars
    /\ UNCHANGED lvars

\* variant of WorkerWrite that returns without storing the record
WorkerWrite_Dropped ==
    /\ w_pc = "write_open"
    /\ cache_lock = Worker
    /\ cache_lock' = Nobody
    /\ w_entry' = NoEntry
    /\ w_pc' = "lock_done"
    /\ UNCHANGED <<now, cache, jobs, queue, jobs_lock, w_job_id, w_handle,
                   w_err, w_had_entry, submitted>>
    /\ UNCHANGED tvars
    /\ store_open' = store_open \ {Worker}
    /\ UNCHANGED avars
    /\ UNCHANGED lvars

\* variant of WorkerWrite that replaces the store by the one new record
WorkerWrite_Clobber ==
    /\ w_pc = "write_open"
    /\ cache_lock = Worker
    /\ cache' = (w_handle :> w_entry)
    /\ cache_lock' = Nobody
    /\ w_entry' = NoEntry
    /\ w_pc' = "lock_done"
    /\ UNCHANGED <<now, jobs, queue, jobs_lock, w_job_id, w_handle, w_err,
                   w_had_entry, submitted>>
    /\ UNCHANGED tvars
    /\ store_open' = store_open \ {Worker}
    /\ UNCHANGED avars
    /\ UNCHANGED lvars

\* write_cache: with open_cache() as cache: cache[handle] = entry
WorkerWrite ==
    /\ w_pc = "write_open"
    /\ cache_lock = Worker
    /\ cache' = (w_handle :> w_entry) @@ cache
    /\ cache_lock' = Nobody
    /\ w_entry' = NoEntry
    /\ w_pc' = "lock_done"
    /\ UNCHANGED <<now, jobs, queue, jobs_lock, w_job_id, w_handle, w_err,
                   w_had_entry, submitted>>
    /\ UNCHANGED tvars
    /\ store_open' = store_open \ {Worker}
    /\ UNCHANGED avars
    /\ UNCHANGED lvars

\* write_cache raises (open_cache or the assignment fails before the record
\* is stored); the "with" releases the lock and the worker's except catches it
WorkerWriteFail ==
    /\ w_pc = "write_open"
    /\ cache_lock = Worker
    /\ cache_lock' = Nobody
    /\ w_entry' = NoEntry
    /\ w_err' = StoreError
    /\ w_pc' = "lock_error"
    /\ UNCHANGED <<now, cache, jobs, queue, jobs_lock, w_job_id, w_handle,
                   w_had_entry, submitted>>
    /\ UNCHANGED tvars
    /\ store_open' = store_open \ {Worker}
    /\ UNCHANGED avars
    /\ UNCHANGED lvars

\* with _jobs_lock:   (line 146)
WorkerDoneAcquire ==
    /\ w_pc = "lock_done"
    /\ jobs_lock = Nobody
    /\ jobs_lock' = Worker
    /\ w_pc' = "mark_done"
    /\ UNCHANGED <<now, cache, jobs, queue, cache_lock, w_job_id, w_handle,
                   w_entry, w_err, w_had_entry, submitted>>
    /\ UNCHANGED tvars
    /\ UNCHANGED store_open
    /\ UNCHANGED avars
    /\ UNCHANGED lvars

\* _jobs[job_id]["status"] = "done"; then _queue.task_done() and loop
WorkerMarkDone ==
    /\ w_pc = "mark_done"
    /\ jobs_lock = Worker
    /\ jobs' = SetStatus(jobs, w_job_id, "done")
    /\ jobs_lock' = Nobody
    /\ w_pc' = "get"
    /\ w_job_id' = NoJob
    /\ w_handle' = ""
    /\ w_had_entry' = FALSE
    /\ UNCHANGED <<now, cache, queue, cache_lock, w_entry, w_err, submitted>>
    /\ UNCHANGED tvars
    /\ UNCHANGED store_open
    /\ UNCHANGED avars
    /\ UNCHANGED lvars

\* with _jobs_lock:   (line 153)
WorkerErrorAcquire ==
    /\ w_pc = "lock_error"
    /\ jobs_lock = Nobody
    /\ jobs_lock' = Worker
    /\ w_pc' = "mark_error"
    /\ UNCHANGED <<now, cache, jobs, queue, cache_lock, w_job_id, w_handle,
                   w_entry, w_err, w_had_entry, submitted>>
    /\ UNCHANGED tvars
    /\ UNCHANGED store_open
    /\ UNCHANGED avars
    /\ UNCHANGED lvars

\* variant of WorkerMarkError that records the message but not the status
WorkerMarkError_KeepsStatus ==
    /\ w_pc = "mark_error"
    /\ jobs_lock = Worker
    /\ jobs' = [jobs EXCEPT ![JobIndex(jobs, w_job_id)].error = w_err]
    /\ jobs_lock' = Nobody
    /\ w_pc' = "get"
    /\ w_job_id' = NoJob
    /\ w_handle' = ""
    /\ w_err' = NoError
    /\ w_had_entry' = FALSE
    /\ UNCHANGED <<now, cache, queue, cache_lock, w_entry, submitted>>
    /\ UNCHANGED tvars
    /\ UNCHANGED store_open
    /\ UNCHANGED avars
    /\ UNCHANGED lvars

\* variant of WorkerMarkError that records a fixed text instead of str(e)
WorkerMarkError_FixedMessage ==
    /\ w_pc = "mark_error"
    /\ jobs_lock = Worker
    /\ jobs' = [SetStatus(jobs, w_job_id, "error")
                    EXCEPT ![JobIndex(jobs, w_job_id)].error = "error"]
    /\ jobs_lock' = Nobody
    /\ w_pc' = "get"
    /\ w_job_id' = NoJob
    /\ w_handle' = ""
    /\ w_err' = NoError
    /\ w_had_entry' = FALSE
    /\ UNCHANGED <<now, cache, queue, cache_lock, w_entry, submitted>>
    /\ UNCHANGED tvars
    /\ UNCHANGED store_open
    /\ UNCHANGED avars
    /\ UNCHANGED lvars

\* _jobs[job_id]["status"] = "error"; _jobs[job_id]["error"] = str(e);
\* then _queue.task_done() and loop
WorkerMarkError ==
    /\ w_pc = "mark_error"
    /\ jobs_lock = Worker
    /\ jobs' = [SetStatus(jobs, w_job_id, "error")
                    EXCEPT ![JobIndex(jobs, w_job_id)].error = w_err]
    /\ jobs_lock' = Nobody
    /\ w_pc' = "get"
    /\ w_job_id' = NoJob
    /\ w_handle' = ""
    /\ w_err' = NoError
    /\ w_had_entry' = FALSE
    /\ UNCHANGED <<now, cache, queue, cache_lock, w_entry, submitted>>
    /\ UNCHANGED tvars
    /\ UNCHANGED store_open
    /\ UNCHANGED avars
    /\ UNCHANGED lvars

\* ------------------------------------------------ status lookup: GET /
\* index() and build_html(), run by a request thread

Lookups == Cardinality({t \in Threads : pc[t] \in
              {"ix_read_cache", "ix_read_open", "ix_lock_get", "ix_get",
               "ix_status", "ix_lock_pos", "ix_pos"}})

\* the ids a client can ask for: any id job_id_for can have produced so far,
\* registered or not, or no "job" parameter at all
LookupIds == {job_id_for(h, c) : h \in Handles, c \in 0..now} \cup {NoJob}

\* job_id = request.args.get("job")
IndexRequest(t, jid) ==
    /\ pc[t] = "idle"
    /\ Lookups < MaxLookups
    /\ pc' = [pc EXCEPT ![t] = "ix_read_cache"]
    /\ job_id' = [job_id EXCEPT ![t] = jid]
    /\ UNCHANGED <<now, cache, jobs, queue, jobs_lock, cache_lock, handle,
                   snap, submitted, store_open>>
    /\ UNCHANGED wvars
    /\ UNCHANGED avars
    /\ UNCHANGED lvars

\* cache = read_cache(): with _cache_lock
IndexReadAcquire(t) ==
    /\ pc[t] = "ix_read_cache"
    /\ cache_lock = Nobody
    /\ cache_lock' = t
    /\ store_open' = store_open \cup {t}
    /\ pc' = [pc EXCEPT ![t] = "ix_read_open"]
    /\ UNCHANGED <<now, cache, jobs, queue, jobs_lock, handle, snap, job_id,
                   submitted>>
    /\ UNCHANGED wvars
    /\ UNCHANGED avars
    /\ UNCHANGED lvars

\* read_cache: return dict(cache); build_html: "if job_id:" (without a job id
\* the page is built from the cache alone)
IndexRead(t) ==
    /\ pc[t] = "ix_read_open"
    /\ cache_lock = t
    /\ snap' = [snap EXCEPT ![t] = IF job_id[t] = NoJob THEN <<>> ELSE cache]
    /\ cache_lock' = Nobody
    /\ store_open' = store_open \ {t}
    /\ pc' = [pc EXCEPT ![t] = IF job_id[t] = NoJob THEN "idle"
                                ELSE "ix_lock_get"]
    /\ UNCHANGED <<now, cache, jobs, queue, jobs_lock, handle, job_id,
                   submitted>>
    /\ UNCHANGED wvars
    /\ UNCHANGED avars
    /\ UNCHANGED lvars

\* build_html: with _jobs_lock   (line 225)
IndexGetAcquire(t) ==
    /\ pc[t] = "ix_lock_get"
    /\ jobs_lock = Nobody
    /\ jobs_lock' = t
    /\ pc' = [pc EXCEPT ![t] = "ix_get"]
    /\ UNCHANGED <<now, cache, jobs, queue, cache_lock, handle, snap, job_id,
                   submitted, store_open>>
    /\ UNCHANGED wvars
    /\ UNCHANGED avars
    /\ UNCHANGED lvars

\* job = _jobs.get(job_id); "if job:" (an unknown id: the page is built from
\* the cache alone)
IndexGet(t) ==
    /\ pc[t] = "ix_get"
    /\ jobs_lock = t
    /\ jobs_lock' = Nobody
    /\ IF HasJob(jobs, job_id[t])
       THEN /\ held' = [held EXCEPT ![t] = Live]
            /\ pc' = [pc EXCEPT ![t] = "ix_status"]
            /\ UNCHANGED <<snap, job_id>>
       ELSE /\ held' = held
            /\ pc' = [pc EXCEPT ![t] = "idle"]
            /\ snap' = [snap EXCEPT ![t] = <<>>]
            /\ job_id' = [job_id EXCEPT ![t] = NoJob]
    /\ UNCHANGED <<now, cache, jobs, queue, cache_lock, handle, submitted,
                   store_open, l_status>>
    /\ UNCHANGED wvars
    /\ UNCHANGED avars

\* the dict "job" of thread t as it is now
HeldRec(t) == IF held[t] = Live THEN JobRec(jobs, job_id[t]) ELSE held[t].rec

\* the tests of job["status"], made without _jobs_lock: "queued" goes on to
\* get_queue_position, any other status builds the page at once
IndexStatus(t) ==
    /\ pc[t] = "ix_status"
    /\ IF HeldRec(t).status = "queued"
       THEN /\ l_status' = [l_status EXCEPT ![t] = "queued"]
            /\ pc' = [pc EXCEPT ![t] = "ix_lock_pos"]
            /\ UNCHANGED <<snap, job_id, held>>
       ELSE /\ l_status' = l_status
            /\ pc' = [pc EXCEPT ![t] = "idle"]
            /\ snap' = [snap EXCEPT ![t] = <<>>]
            /\ job_id' = [job_id EXCEPT ![t] = NoJob]
            /\ held' = [held EXCEPT ![t] = NoRef]
    /\ UNCHANGED <<now, cache, jobs, queue, jobs_lock, cache_lock, handle,
                   submitted, store_open>>
    /\ UNCHANGED wvars
    /\ UNCHANGED avars

\* get_queue_position: with _jobs_lock
IndexPosAcquire(t) ==
    /\ pc[t] = "ix_lock_pos"
    /\ jobs_lock = Nobody
    /\ jobs_lock' = t
    /\ pc' = [pc EXCEPT ![t] = "ix_pos"]
    /\ UNCHANGED <<now, cache, jobs, queue, cache_lock, handle, snap, job_id,
                   submitted, store_open>>
    /\ UNCHANGED wvars
    /\ UNCHANGED avars
    /\ UNCHANGED lvars

\* pos = get_queue_position(job_id); the page says "queued" with pos - 1
\* requests ahead
IndexPos(t) ==
    /\ pc[t] = "ix_pos"
    /\ jobs_lock = t
    /\ jobs_lock' = Nobody
    /\ pc' = [pc EXCEPT ![t] = "idle"]
    /\ snap' = [snap EXCEPT ![t] = <<>>]
    /\ job_id' = [job_id EXCEPT ![t] = NoJob]
    /\ held' = [held EXCEPT ![t] = NoRef]
    /\ l_status' = [l_status EXCEPT ![t] = ""]
    /\ UNCHANGED <<now, cache, jobs, queue, cache_lock, handle, submitted,
                   store_open>>
    /\ UNCHANGED wvars
    /\ UNCHANGED avars

\* ------------------------------------------------- delete_from_cache.py
\* The script is a process of its own: it takes none of the locks of app.py.

\* len(sys.argv) != 2: print the usage, sys.exit(1)
AdminUsage ==
    /\ admin_pc = "idle"
    /\ admin_handle' = ""
    /\ admin_exit' = 1
    /\ admin_out' = "usage"
    /\ admin_listed' = {}
    /\ UNCHANGED <<now, cache, jobs, queue, jobs_lock, cache_lock, submitted,
                   store_open, admin_pc>>
    /\ UNCHANGED tvars
    /\ UNCHANGED wvars
    /\ UNCHANGED lvars

\* handle = sys.argv[1]; with shelve.open(CACHE_PATH) as cache:
AdminOpen(h) ==
    /\ admin_pc = "idle"
    /\ admin_pc' = "open"
    /\ admin_handle' = h
    /\ admin_exit' = -1
    /\ admin_out' = ""
    /\ admin_listed' = {}
    /\ store_open' = store_open \cup {Admin}
    /\ UNCHANGED <<now, cache, jobs, queue, jobs_lock, cache_lock, submitted>>
    /\ UNCHANGED tvars
    /\ UNCHANGED wvars
    /\ UNCHANGED lvars

\* shelve.open raises: except Exception: print the error, sys.exit(1)
AdminOpenFail(h) ==
    /\ admin_pc = "idle"
    /\ admin_handle' = h
    /\ admin_exit' = 1
    /\ admin_out' = "error"
    /\ admin_listed' = {}
    /\ UNCHANGED <<now, cache, jobs, queue, jobs_lock, cache_lock, submitted,
                   store_open, admin_pc>>
    /\ UNCHANGED tvars
    /\ UNCHANGED wvars
    /\ UNCHANGED lvars

\* variant of AdminDelete that reports a handle that is not in the store
\* like a deletion: no list of handles, exit status 0
AdminDelete_Silent ==
    /\ admin_pc = "open"
    /\ cache' = [k \in DOMAIN cache \ {admin_handle} |-> cache[k]]
    /\ admin_exit' = 0
    /\ admin_out' = "deleted"
    /\ admin_listed' = {}
    /\ store_open' = store_open \ {Admin}
    /\ admin_pc' = "idle"
    /\ UNCHANGED <<now, jobs, queue, jobs_lock, cache_lock, submitted,
                   admin_handle>>
    /\ UNCHANGED tvars
    /\ UNCHANGED wvars
    /\ UNCHANGED lvars

\* if handle in cache: del cache[handle], report it (the script ends with
\* status 0); else: list sorted(cache.keys()), sys.exit(1). The "with" closes
\* the store on both paths.
AdminDelete ==
    /\ admin_pc = "open"
    /\ IF admin_handle \in DOMAIN cache
       THEN /\ cache' = [k \in DOMAIN cache \ {admin_handle} |-> cache[k]]
            /\ admin_exit' = 0
            /\ admin_out' = "deleted"
            /\ admin_listed' = {}
       ELSE /\ cache' = cache
            /\ admin_exit' = 1
            /\ admin_out' = "not found"
            /\ admin_listed' = DOMAIN cache
    /\ store_open' = store_open \ {Admin}
    /\ admin_pc' = "idle"
    /\ UNCHANGED <<now, jobs, queue, jobs_lock, cache_lock, submitted,
                   admin_handle>>
    /\ UNCHANGED tvars
    /\ UNCHANGED wvars
    /\ UNCHANGED lvars

\* ------------------------------------------------------------------- Next
Next ==
    \/ Tick
    \/ \E t \in Threads, h \in Handles : Request(t, h)
    \/ \E t \in Threads : ReadCacheAcquire(t)
    \/ \E t \in Threads : ReadCache(t)
    \/ \E t \in Threads : CheckCache(t)
    \/ \E t \in Threads : RegisterAcquire(t)
    \/ \E t \in Threads : Register(t)
    \/ \E t \in Threads : Put(t)
    \/ WorkerGet
    \/ WorkerProcessingAcquire
    \/ WorkerMarkProcessing
    \/ WorkerAnalyzeOk
    \/ \E msg \in AnalyzeErrors : WorkerAnalyzeFail(msg)
    \/ WorkerWriteAcquire
    \/ WorkerWrite
    \/ WorkerWriteFail
    \/ WorkerDoneAcquire
    \/ WorkerMarkDone
    \/ WorkerErrorAcquire
    \/ WorkerMarkError

Spec == Init /\ [][Next]_vars

\* the application with status lookups
LookupNext ==
    \/ \E t \in Threads, jid \in LookupIds : IndexRequest(t, jid)
    \/ \E t \in Threads : IndexReadAcquire(t)
    \/ \E t \in Threads : IndexRead(t)
    \/ \E t \in Threads : IndexGetAcquire(t)
    \/ \E t \in Threads : IndexGet(t)
    \/ \E t \in Threads : IndexStatus(t)
    \/ \E t \in Threads : IndexPosAcquire(t)
    \/ \E t \in Threads : IndexPos(t)

NextLookup == Next \/ LookupNext

SpecLookup == Init /\ [][NextLookup]_vars

\* the application together with runs of delete_from_cache.py
AdminNext ==
    \/ AdminUsage
    \/ \E h \in StoreKeys : AdminOpen(h)
    \/ \E h \in StoreKeys : AdminOpenFail(h)
    \/ AdminDelete

NextAdmin == Next \/ AdminNext

SpecAdmin == Init /\ [][NextAdmin]_vars

\* delete_from_cache.py on its own (the server is not running), started on
\* any store the server can have left behind
StoredEntries(K) ==
    [K -> [handle : StoreKeys, date : 0..MaxClock, posts : {POST_LIMIT}]]

InitDelete ==
    /\ now = 0
    /\ cache \in { c \in UNION { StoredEntries(K) : K \in SUBSET StoreKeys } :
                        \A k \in DOMAIN c : c[k].handle = k }
    /\ jobs = <<>>
    /\ queue = <<>>
    /\ jobs_lock = Nobody
    /\ cache_lock = Nobody
    /\ pc = [t \in Threads |-> "idle"]
    /\ handle = [t \in Threads |-> ""]
    /\ snap = [t \in Threads |-> <<>>]
    /\ job_id = [t \in Threads |-> NoJob]
    /\ w_pc = "get"
    /\ w_job_id = NoJob
    /\ w_handle = ""
    /\ w_entry = NoEntry
    /\ w_err = NoError
    /\ w_had_entry = FALSE
    /\ submitted = <<>>
    /\ store_open = {}
    /\ admin_pc = "idle"
    /\ admin_handle = ""
    /\ admin_exit = -1
    /\ admin_out = ""
    /\ admin_listed = {}
    /\ held = [t \in Threads |-> NoRef]
    /\ l_status = [t \in Threads |-> ""]

SpecDelete == InitDelete /\ [][AdminNext]_vars

\* ================================================================ claims
RegisterStep(t) == pc[t] = "register" /\ pc'[t] = "put"

\* every registration so far created a record of its own (no job id was
\* issued twice, the case C3 is about)
NoIdReuse == Len(jobs) = Len(submitted)

\* C1: a submission of an uncached key creates exactly one new job, Queued,
\* whose position is the number of Queued jobs before the submission plus 1
\* (stated for the submissions that got a job id of their own).
C1_SubmitCreatesJobAtNextPosition ==
    [][\A t \in Threads :
         (RegisterStep(t) /\ ~HasJob(jobs, job_id[t])) =>
            /\ Len(jobs') = Len(jobs) + 1
            /\ JobRec(jobs', job_id[t]).status = "queued"
            /\ JobRec(jobs', job_id[t]).position = Len(QueuedIds(jobs)) + 1]_vars

\* C2: in every state the positions of the Queued jobs are 1..K, without gaps
\* or duplicates, in submission (registry) order (stated for the states in
\* which no job id was issued twice).
C2_QueuedPositionsAreRanks ==
    NoIdReuse =>
    \A i \in 1..Len(jobs) :
        jobs[i].status = "queued" =>
            jobs[i].position = get_queue_position(jobs, jobs[i].id)

\* C3: every submission obtains a job id no earlier submission obtained, so
\* registering a job never overwrites an existing registry record.
C3_JobIdsAreFresh ==
    [][\A t \in Threads :
         RegisterStep(t) => ~HasJob(jobs, job_id[t])]_vars

\* C4: the status of a job only moves Queued -> Processing -> (Done | Error),
\* and a Done or Error job keeps its status and error.
C4_StatusIsMonotonic ==
    [][\A i \in 1..Len(jobs) :
         /\ jobs[i].status = "queued" =>
                jobs'[i].status \in {"queued", "processing"}
         /\ jobs[i].status = "processing" =>
                jobs'[i].status \in {"processing", "done", "error"}
         /\ jobs[i].status \in {"done", "error"} =>
                /\ jobs'[i].status = jobs[i].status
                /\ jobs'[i].error = jobs[i].error]_vars

WorkerFinishStep == w_pc \in {"mark_done", "mark_error"} /\ w_pc' = "get"

\* C5 (as stated): when the worker has finished a job, its status is Done or
\* Error and the cache holds an entry for its key iff the status is Done
\* (stated for the states in which no job id was issued twice).
C5_CacheEntryIffDone ==
    [][(WorkerFinishStep /\ NoIdReuse) =>
         /\ JobRec(jobs', w_job_id).status \in {"done", "error"}
         /\ (w_handle \in DOMAIN cache') <=>
                (JobRec(jobs', w_job_id).status = "done")]_vars

\* C5 (amended): when the worker has finished a job, its status is Done or
\* Error and the cache holds an entry for its key iff the status is Done or
\* the cache already held an entry for the key when the job was dequeued.
C5_CacheEntryIffDoneOrCachedBefore ==
    [][WorkerFinishStep =>
         /\ JobRec(jobs', w_job_id).status \in {"done", "error"}
         /\ (w_handle \in DOMAIN cache') <=>
                (JobRec(jobs', w_job_id).status = "done" \/ w_had_entry)]_vars

\* a job ended in Error although the cache holds an entry for its key
C5_Witness ==
    /\ w_pc = "get"
    /\ \E i \in 1..Len(jobs) :
          jobs[i].status = "error" /\ jobs[i].handle \in DOMAIN cache

\* C6: a submission whose key is in the cache creates no job, issues no job
\* id and leaves the registry and the queue unchanged.
C6_CachedSubmitCreatesNothing ==
    [][\A t \in Threads :
         (/\ pc'[t] # pc[t]
          /\ \/ pc[t] \in {"idle", "read_cache", "read_open"}
             \/ pc[t] = "check" /\ handle[t] \in DOMAIN snap[t])
         => /\ jobs' = jobs
            /\ queue' = queue
            /\ job_id'[t] = NoJob
            /\ pc[t] = "check" => pc'[t] = "idle"]_vars

\* a request thread holds a cache snapshot that contains its key
C6_Witness ==
    \E t \in Threads :
        /\ pc[t] = "check"
        /\ handle[t] \in DOMAIN snap[t]
        /\ \E i \in 1..Len(jobs) :
              jobs[i].handle = handle[t] /\ jobs[i].status = "done"

DistinctKeys ==
    \A i, j \in 1..Len(submitted) : i # j => submitted[i] # submitted[j]

AllDone == \A i \in 1..Len(jobs) : jobs[i].status = "done"

\* C8: submissions of N distinct uncached keys give exactly N registered jobs
\* and, once all of them are Done, exactly N cache entries, one per key.
C8_NoLostJobOrWrite ==
    DistinctKeys =>
        /\ Len(jobs) = Len(submitted)
        /\ {jobs[i].handle : i \in 1..Len(jobs)} =
               {submitted[i] : i \in 1..Len(submitted)}
        /\ AllDone =>
              /\ DOMAIN cache = {submitted[i] : i \in 1..Len(submitted)}
              /\ Cardinality(DOMAIN cache) = Len(submitted)

\* two distinct keys were submitted and both jobs are Done
C8_Witness ==
    /\ DistinctKeys
    /\ Len(submitted) >= 2
    /\ AllDone
    /\ Cardinality(DOMAIN cache) = Len(submitted)

\* C9: no failure while a job is processed ends the worker: the failure is
\* caught, the job is marked Error and the worker is back at the dequeue.
C9_WorkerSurvivesFailure ==
    [][/\ w_pc' # "dead"
       /\ (w_err = NoError /\ w_err' # NoError) => w_pc' = "lock_error"
       /\ (w_pc = "lock_error" /\ w_pc' # w_pc) => w_pc' = "mark_error"
       /\ (w_pc = "mark_error" /\ w_pc' # w_pc) =>
              /\ w_pc' = "get"
              /\ JobRec(jobs', w_job_id).status = "error"]_vars

\* after a job failed the worker is processing a later job
C9_Witness ==
    \E i, j \in 1..Len(jobs) :
        /\ i # j
        /\ jobs[i].status = "error"
        /\ jobs[j].status = "processing"
        /\ w_pc = "analyze"

AnalysisPcs ==
    {"analyze", "write_cache", "write_open", "lock_done", "mark_done",
     "lock_error", "mark_error"}

\* C10: at most one job is Processing at any instant, and it is the job the
\* single worker is running the analysis for.
C10_AtMostOneProcessing ==
    /\ Cardinality({i \in 1..Len(jobs) : jobs[i].status = "processing"}) <= 1
    /\ \A i \in 1..Len(jobs) :
          jobs[i].status = "processing" =>
              (jobs[i].id = w_job_id /\ w_pc \in AnalysisPcs)

\* the analysis runs for one job while a second submission is in flight: its
\* job is registered, Queued, and not yet enqueued
C10_Witness ==
    /\ w_pc = "analyze"
    /\ \E i, j \in 1..Len(jobs) :
          jobs[i].status = "processing" /\ jobs[j].status = "queued"
    /\ \E t \in Threads : pc[t] = "put"

\* the steps of the worker between the failure of the analysis and the
\* record of it: the except clause (app.py 151-155)
AnalysisFailed == w_pc \in {"lock_error", "mark_error"} /\ w_err \in AnalyzeErrors

\* C11: when the analysis of a job fails, the worker sets that job's status
\* to "error" and its error to the message of the failure, and changes
\* neither the cache (any key) nor the status of any other job: the failure
\* itself only captures the message, and from there to the record of it the
\* worker keeps the message and leaves cache and registry alone.
C11_FailureMarksOnlyThatJob ==
    [][/\ (w_pc = "analyze" /\ w_pc' = "lock_error")
            => /\ w_err' \in AnalyzeErrors
               /\ cache' = cache
               /\ jobs' = jobs
       /\ (AnalysisFailed /\ w_pc' \in {"lock_error", "mark_error"})
            => /\ w_err' = w_err
               /\ w_job_id' = w_job_id
               /\ cache' = cache
       /\ (AnalysisFailed /\ w_pc = "mark_error" /\ w_pc' # "mark_error")
            => /\ HasJob(jobs, w_job_id)
               /\ Len(jobs') = Len(jobs)
               /\ JobRec(jobs', w_job_id).status = "error"
               /\ JobRec(jobs', w_job_id).error = w_err
               /\ \A i \in 1..Len(jobs) :
                     i # JobIndex(jobs, w_job_id) => jobs'[i] = jobs[i]
               /\ cache' = cache
               /\ w_pc' = "get"]_vars

\* a failed job with the message of its failure, next to a job that is done
\* and a cache that holds an entry
C11_Witness ==
    \E i, j \in 1..Len(jobs) :
        /\ jobs[i].status = "error"
        /\ jobs[i].error \in AnalyzeErrors
        /\ jobs[j].status = "done"
        /\ jobs[j].handle \in DOMAIN cache
        /\ jobs[i].handle \notin DOMAIN cache

\* the worker takes the next item off the queue: _queue.get()
WorkerGetStep == w_pc = "get" /\ w_pc' = "lock_processing"

\* C12: there is no retry. Each job is dequeued and handed to the analysis at
\* most once: the job the worker dequeues is still "queued", and no
\* submission makes a job that has been started "queued" again. A submission
\* of the key of a job that ended in "error" registers a job with a fresh id
\* and leaves the failed job's record, with its status and message, as it is.
C12_NoRetry ==
    [][/\ WorkerGetStep => JobRec(jobs, Head(queue)[1]).status = "queued"
       /\ \A t \in Threads :
            RegisterStep(t) =>
                \A i \in 1..Len(jobs) :
                    /\ jobs[i].status # "queued" => jobs'[i] = jobs[i]
                    /\ (jobs[i].status = "error" /\ jobs[i].handle = handle[t])
                         => job_id[t] # jobs[i].id]_vars

\* the case of C12: the key of a failed job is submitted again
C12_ErrorResubmitted ==
    \E t \in Threads, i \in 1..Len(jobs) :
        /\ pc[t] = "register"
        /\ jobs[i].status = "error"
        /\ jobs[i].handle = handle[t]
        /\ jobs[i].id = job_id[t]

\* C13: every open-operate-close cycle on the store is serialized by one
\* mutex: no two of read_cache, write_cache and the administrative deletion
\* have the store open at the same time, and the store is closed whenever
\* the mutex is free.
C13_StoreSerializedByMutex ==
    /\ Cardinality(store_open) <= 1
    /\ cache_lock = Nobody => store_open = {}

\* the part of C13 that is about app.py alone: read_cache and write_cache
\* have the store open only while they hold _cache_lock
StoreOpenInsideLock ==
    \A p \in store_open \ {Admin} : cache_lock = p

\* the next statement of request thread t, submission or status lookup
ThreadStep(t) ==
    \/ ReadCacheAcquire(t) \/ ReadCache(t) \/ CheckCache(t)
    \/ RegisterAcquire(t) \/ Register(t) \/ Put(t)
    \/ IndexReadAcquire(t) \/ IndexRead(t) \/ IndexGetAcquire(t)
    \/ IndexGet(t) \/ IndexStatus(t) \/ IndexPosAcquire(t) \/ IndexPos(t)

\* the statement with which the holder p of a lock leaves its "with" block
ReleaseStep(p) ==
    \/ p = Worker /\ (WorkerMarkProcessing \/ WorkerWrite \/ WorkerWriteFail
                         \/ WorkerMarkDone \/ WorkerMarkError)
    \/ p \in Threads /\ (ReadCache(p) \/ Register(p) \/ IndexRead(p)
                          \/ IndexGet(p) \/ IndexPos(p))

WaitsForCacheLock(t) == pc[t] \in {"read_cache", "ix_read_cache"}
WaitsForJobsLock(t) == pc[t] \in {"lock_register", "ix_lock_get", "ix_lock_pos"}

\* C14: request threads never wait for the worker to finish a job. While the
\* analysis (the collaborator call) runs the worker holds neither the
\* registry lock nor the cache mutex; and a request thread in the middle of a
\* submission or a status lookup can either take its next step, or waits for
\* a lock whose holder is at the last statement of its "with" block and can
\* take it, whatever the status of any job.
C14_RequestsNeverWaitForWorker ==
    /\ w_pc = "analyze" => jobs_lock # Worker /\ cache_lock # Worker
    /\ \A t \in Threads :
         pc[t] # "idle" =>
            \/ ENABLED ThreadStep(t)
            \/ /\ WaitsForCacheLock(t)
               /\ cache_lock # Nobody
               /\ ENABLED ReleaseStep(cache_lock)
            \/ /\ WaitsForJobsLock(t)
               /\ jobs_lock # Nobody
               /\ ENABLED ReleaseStep(jobs_lock)

\* the analysis of a job runs while a status lookup is inside the registry
\* lock and a submission waits for that lock
C14_Witness ==
    /\ w_pc = "analyze"
    /\ \E t, u \in Threads :
         /\ pc[t] = "ix_get"
         /\ pc[u] = "lock_register"
         /\ ~ ENABLED ThreadStep(u)

\* C15: a job that is not "queued" has position 0; a position of 1 or more
\* is held by "queued" jobs only.
C15_PositionZeroUnlessQueued ==
    \A i \in 1..Len(jobs) : jobs[i].status # "queued" => jobs[i].position = 0

\* a submission of handle h while a job for h is "queued" or "processing"
ResubmitStep(t) ==
    /\ RegisterStep(t)
    /\ \E i \in 1..Len(jobs) : /\ jobs[i].handle = handle[t]
                                /\ jobs[i].status \in {"queued", "processing"}

\* C16: submissions are not deduplicated. A second submission of an uncached
\* key while a job for it is "queued" or "processing" makes a second,
\* independent job: a new record with its own id, the records that exist
\* untouched; the job is put on the queue like any other; and the write of
\* a job that succeeds replaces whatever entry the cache holds for the key.
C16_ResubmissionIsASecondJob ==
    [][/\ \A t \in Threads :
            ResubmitStep(t) =>
                /\ ~ HasJob(jobs, job_id[t])
                /\ Len(jobs') = Len(jobs) + 1
                /\ jobs'[Len(jobs')].id = job_id[t]
                /\ jobs'[Len(jobs')].status = "queued"
                /\ \A i \in 1..Len(jobs) : jobs'[i] = jobs[i]
       /\ \A t \in Threads :
            (pc[t] = "put" /\ pc'[t] = "idle") =>
                queue' = Append(queue, <<job_id[t], handle[t]>>)
       /\ (w_pc = "write_open" /\ w_pc' = "lock_done") =>
                /\ w_entry.handle \in DOMAIN cache'
                /\ cache'[w_entry.handle] = w_entry]_vars

\* the records of the scenario of C18: job A for "alice", job B for "bob"
IsA(r, st) == r.handle = "alice" /\ r.status = st
IsB(r, st) == r.handle = "bob" /\ r.status = st

\* C18: the scenario. "alice" is submitted while nothing is queued: A is
\* "queued" with position 1. "bob" is submitted: B is "queued" with position
\* 2. The worker dequeues A: A is "processing" and B has position 1. The
\* analysis succeeds: A is "done" and the cache holds "alice". The worker
\* dequeues B: B is "processing" with position 0. The analysis fails: B is
\* "error" with the message, and the cache has no entry for "bob".
C18_Scenario ==
    [][/\ \A t \in Threads :
            (RegisterStep(t) /\ handle[t] = "alice" /\ jobs = <<>>
             /\ queue = <<>> /\ w_pc = "get") =>
                /\ Len(jobs') = 1
                /\ IsA(jobs'[1], "queued")
                /\ jobs'[1].position = 1
       /\ \A t \in Threads :
            (RegisterStep(t) /\ handle[t] = "bob" /\ Len(jobs) = 1
             /\ IsA(jobs[1], "queued") /\ Len(queue) = 1 /\ w_pc = "get") =>
                /\ Len(jobs') = 2
                /\ jobs'[1] = jobs[1]
                /\ IsB(jobs'[2], "queued")
                /\ jobs'[2].position = 2
       /\ (w_pc = "mark_processing" /\ w_pc' = "analyze" /\ Len(jobs) = 2
           /\ w_handle = "alice" /\ IsA(jobs[1], "queued")
           /\ IsB(jobs[2], "queued") /\ jobs[2].position = 2) =>
                /\ IsA(jobs'[1], "processing")
                /\ IsB(jobs'[2], "queued")
                /\ jobs'[2].position = 1
       /\ (w_pc = "mark_done" /\ w_pc' = "get" /\ Len(jobs) = 2
           /\ w_handle = "alice" /\ IsA(jobs[1], "processing")
           /\ IsB(jobs[2], "queued")) =>
                /\ IsA(jobs'[1], "done")
                /\ "alice" \in DOMAIN cache'
       /\ (w_pc = "mark_processing" /\ w_pc' = "analyze" /\ Len(jobs) = 2
           /\ w_handle = "bob" /\ IsA(jobs[1], "done")
           /\ IsB(jobs[2], "queued")) =>
                /\ IsB(jobs'[2], "processing")
                /\ jobs'[2].position = 0
       /\ (w_pc = "mark_error" /\ w_pc' = "get" /\ Len(jobs) = 2
           /\ w_handle = "bob" /\ w_err \in AnalyzeErrors
           /\ IsA(jobs[1], "done") /\ IsB(jobs[2], "processing")) =>
                /\ IsB(jobs'[2], "error")
                /\ jobs'[2].error = w_err
                /\ "bob" \notin DOMAIN cache']_vars

\* C20: every item of the queue, and the item the worker has dequeued and
\* not yet marked, names a job that is in the registry with status "queued":
\* the worker's lookup of the job never fails, and the worker never starts a
\* job that is "processing", "done" or "error".
C20_QueueItemsAreQueuedJobs ==
    /\ \A k \in 1..Len(queue) :
         /\ HasJob(jobs, queue[k][1])
         /\ JobRec(jobs, queue[k][1]).status = "queued"
    /\ w_pc \in {"lock_processing", "mark_processing"} =>
         /\ HasJob(jobs, w_job_id)
         /\ JobRec(jobs, w_job_id).status = "queued"

\* delete_from_cache.py leaves the "with shelve.open" block and ends
AdminDeleteStep == admin_pc = "open" /\ admin_pc' = "idle"

\* C17: the administrative deletion of a key that is not in the store ends
\* with a non-zero exit status, lists the keys the store holds and leaves the
\* store as it is; the deletion of a key that is in the store removes that
\* record and leaves every other record as it is.
C17_DeletionRemovesExactlyTheKey ==
    [][AdminDeleteStep =>
        IF admin_handle \in DOMAIN cache
        THEN /\ DOMAIN cache' = DOMAIN cache \ {admin_handle}
             /\ \A k \in DOMAIN cache' : cache'[k] = cache[k]
        ELSE /\ admin_exit' # 0
             /\ admin_listed' = DOMAIN cache
             /\ cache' = cache]_vars

\* a run that deleted a key from a store that holds other keys, and a run
\* that did not find its key in a store that holds other keys
C17_Witness ==
    /\ admin_pc = "idle"
    /\ cache # <<>>
    /\ admin_handle \notin DOMAIN cache
    /\ \/ admin_out = "deleted" /\ admin_exit = 0
       \/ admin_out = "not found" /\ admin_exit = 1
                                   /\ admin_listed = DOMAIN cache

\* the next statement of the worker thread
WorkerStep ==
    \/ WorkerGet \/ WorkerProcessingAcquire \/ WorkerMarkProcessing
    \/ WorkerAnalyzeOk \/ (\E msg \in AnalyzeErrors : WorkerAnalyzeFail(msg))
    \/ WorkerWriteAcquire \/ WorkerWrite \/ WorkerWriteFail
    \/ WorkerDoneAcquire \/ WorkerMarkDone
    \/ WorkerErrorAcquire \/ WorkerMarkError

\* Scheduling: the worker is a thread that runs for ever (daemon thread,
\* "while True") and gets each lock it asks for if the lock is free again
\* and again; the analysis returns or fails; a request thread that has begun
\* a request goes on with it. Requests themselves arrive or not.
Fairness ==
    /\ SF_vars(WorkerStep)
    /\ \A t \in Threads : WF_vars(ThreadStep(t))

SpecFair == Spec /\ Fairness

\* C19: every job that is submitted ends: a job in the registry that is
\* "queued" or "processing" is later "done" or "error", provided the worker is
\* scheduled fairly and every analysis returns or fails.
C19_EveryJobFinishes ==
    \A i \in 1..MaxSubmits :
        (i <= Len(jobs) /\ jobs[i].status \in {"queued", "processing"})
            ~> (i <= Len(jobs) /\ jobs[i].status \in {"done", "error"})

\* two jobs have been submitted and both have ended, the second after
\* waiting in the queue behind the first
C19_Witness ==
    /\ Len(jobs) = 2
    /\ \A i \in 1..2 : jobs[i].status \in {"done", "error"}
    /\ queue = <<>>
    /\ w_pc = "get"

\* C21: while a job stays "queued", its stored position never increases:
\* from the value it got at registration on, every step leaves the position
\* of a record that is "queued" before and after equal or lower.
C21_QueuedPositionNeverIncreases ==
    [][\A i \in 1..Len(jobs) :
         (jobs[i].status = "queued" /\ jobs'[i].status = "queued")
            => jobs'[i].position <= jobs[i].position]_vars

\* build_html computes the position for the page: get_queue_position returns
LookupPosStep(t) == pc[t] = "ix_pos" /\ pc'[t] = "idle"

\* the rank of job jid among the "queued" jobs of the registry, 0 if it is
\* not one of them
QueuedRank(js, jid) ==
    IF HasJob(js, jid) /\ JobRec(js, jid).status = "queued"
    THEN Cardinality({i \in 1..JobIndex(js, jid) : js[i].status = "queued"})
    ELSE 0

\* C22: a status lookup shows one state of the registry: when build_html
\* treats the job as "queued", the position it computes for it is at least 1
\* and is the job's rank among the "queued" jobs, also when the worker
\* dequeues the job while the lookup runs. (Stated for runs in which no job
\* id is reused.)
C22_LookupIsASnapshot ==
    [][\A t \in Threads :
         (LookupPosStep(t) /\ NoIdReuse /\ l_status[t] = "queued") =>
            /\ get_queue_position(jobs, job_id[t]) >= 1
            /\ get_queue_position(jobs, job_id[t])
                  = QueuedRank(jobs, job_id[t])]_vars

\* who waits for which lock: a request thread or the worker at a "with"
WaitingForJobsLock ==
    \/ \E t \in Threads : WaitsForJobsLock(t)
    \/ w_pc \in {"lock_processing", "lock_done", "lock_error"}

WaitingForCacheLock ==
    \/ \E t \in Threads : WaitsForCacheLock(t)
    \/ w_pc = "write_cache"

\* C23: no thread holds the registry lock and the cache mutex at the same
\* time, and there is no deadlock: in every state in which some thread (a
\* request thread or the worker) waits for a lock that is taken, the holder
\* of that lock can take its next step, and that step releases the lock.
C23_NoDoubleLockNoDeadlock ==
    /\ ~ (jobs_lock # Nobody /\ jobs_lock = cache_lock)
    /\ (WaitingForJobsLock /\ jobs_lock # Nobody)
         => ENABLED (ReleaseStep(jobs_lock) /\ jobs_lock' = Nobody)
    /\ (WaitingForCacheLock /\ cache_lock # Nobody)
         => ENABLED (ReleaseStep(cache_lock) /\ cache_lock' = Nobody)

\* both locks are taken, by different holders: a request thread waits for
\* the registry lock that the worker holds, while another request thread
\* holds the cache mutex
C23_Witness ==
    /\ jobs_lock = Worker
    /\ cache_lock \in Threads
    /\ \E t \in Threads : WaitsForJobsLock(t)

====
